---- MODULE Spec2Model ----
(***************************************************************************)
(* Model of the Blender add-on import_texture_material.py: the operator    *)
(* ImportTextureMaterial.execute, which unpacks a texture archive into a   *)
(* scratch directory, classifies the extracted file names into image maps, *)
(* and builds a Principled-BSDF material node tree from them.              *)
(*                                                                         *)
(* A file name is a sequence of one-character strings, so that the name    *)
(* pattern of execute is matched character by character.  The document     *)
(* variables (material, nodes, links, images, textures) hold what the      *)
(* current invocation has added to the document; node_groups is the        *)
(* document's node-group library, which persists between invocations.      *)
(***************************************************************************)
EXTENDS Integers, Sequences, FiniteSets, TLC

\* ----------------------------------------------------------------- bounds
\* Largest number of files in the scratch directory after extraction.
MaxFiles == 2
\* Largest number of "use" toggles a configuration switches off.
MaxDisabled == 1
\* Largest number of node groups the library holds when an invocation starts.
MaxGroups == 2

\* ------------------------------------------------------------- vocabulary
None == "None"
NoGroup == -1
NoSize == -1

\* class MAP
MAP == {"BUMP", "DIFFUSE", "DISPLACEMENT", "NORMAL", "ROUGHNESS", "SPECULAR"}

\* MAP.namestr
namestr(map) ==
    CASE map = "BUMP" -> <<"b", "u", "m", "p">>
      [] map = "DIFFUSE" -> <<"d", "i", "f", "f">>
      [] map = "DISPLACEMENT" -> <<"d", "i", "s", "p">>
      [] map = "NORMAL" -> <<"n", "o", "r">>
      [] map = "ROUGHNESS" -> <<"r", "o", "u", "g", "h">>
      [] map = "SPECULAR" -> <<"s", "p", "e", "c">>

\* MAP.is_colour
is_colour(map) == map \in {"DIFFUSE", "SPECULAR"}

\* MAP.principled_bsdf_input_name (DISPLACEMENT has no entry)
principled_bsdf_input_name(map) ==
    CASE map = "BUMP" -> "Normal"
      [] map = "DIFFUSE" -> "Base Color"
      [] map = "ROUGHNESS" -> "Roughness"
      [] map = "NORMAL" -> "Normal"
      [] map = "SPECULAR" -> "Specular"

\* by_namestr: the dictionary from name string to MAP member
by_namestr_keys == {namestr(m) : m \in MAP}
by_namestr(s) == CHOOSE m \in MAP : namestr(m) = s

\* ------------------------------------------------------------- characters
LowerLetters ==
    {"a", "b", "c", "d", "e", "f", "g", "h", "i", "k", "m", "n", "o", "p",
     "r", "s", "t", "u", "x"}
UpperLetters == {"N", "O", "R"}
Letters == LowerLetters \cup UpperLetters
Digits == {"0", "1", "2", "3", "4", "5", "6", "7", "8", "9"}

\* str.lower(), one character
LowerChar(c) ==
    CASE c = "N" -> "n"
      [] c = "O" -> "o"
      [] c = "R" -> "r"
      [] OTHER -> c

\* str.lower()
Lower(s) == [i \in 1..Len(s) |-> LowerChar(s[i])]

DigitVal(c) ==
    CASE c = "0" -> 0 [] c = "1" -> 1 [] c = "2" -> 2 [] c = "3" -> 3
      [] c = "4" -> 4 [] c = "5" -> 5 [] c = "6" -> 6 [] c = "7" -> 7
      [] c = "8" -> 8 [] c = "9" -> 9

\* int() of a string of decimal digits
RECURSIVE ParseInt(_)
ParseInt(s) ==
    IF Len(s) = 0 THEN 0
    ELSE 10 * ParseInt(SubSeq(s, 1, Len(s) - 1)) + DigitVal(s[Len(s)])

\* ------------------------------------------------------ the name pattern
\* name_pat = ^.+_([a-zA-Z]+)_(\d+)k\..+$ matched at the "_" in position i:
\* a nonempty prefix, "_", letters up to the "_" in position j, digits up to
\* the "k" in position m, ".", and a nonempty rest.
PatMatchAt(name, i, j, m) ==
    /\ 2 <= i /\ i + 1 < j /\ j + 1 < m /\ m + 2 <= Len(name)
    /\ name[i] = "_"
    /\ \A k \in (i + 1)..(j - 1) : name[k] \in Letters
    /\ name[j] = "_"
    /\ \A k \in (j + 1)..(m - 1) : name[k] \in Digits
    /\ name[m] = "k"
    /\ name[m + 1] = "."

PatMatches(name) ==
    {t \in {u \in (2..Len(name)) \X (4..Len(name)) \X (6..Len(name)) :
                /\ name[u[1]] = "_" /\ name[u[2]] = "_" /\ name[u[3]] = "k"} :
        PatMatchAt(name, t[1], t[2], t[3])}

NoMatch == [matched |-> FALSE, group1 |-> <<>>, group2 |-> <<>>]

\* name_pat with its _(\d+)k group made optional: a name with no such group
\* matches with an empty group 2
NoDigitMatches(name) ==
    {t \in (2..Len(name)) \X (4..Len(name)) :
        /\ t[1] + 1 < t[2] /\ t[2] < Len(name)
        /\ name[t[1]] = "_"
        /\ \A k \in (t[1] + 1)..(t[2] - 1) : name[k] \in Letters
        /\ name[t[2]] = "."}

Match_DigitsOptional(name) ==
    IF PatMatches(name) # {}
    THEN LET t == CHOOSE u \in PatMatches(name) :
                      \A v \in PatMatches(name) : v[1] <= u[1]
         IN [matched |-> TRUE,
             group1 |-> SubSeq(name, t[1] + 1, t[2] - 1),
             group2 |-> SubSeq(name, t[2] + 1, t[3] - 1)]
    ELSE IF NoDigitMatches(name) # {}
    THEN LET t == CHOOSE u \in NoDigitMatches(name) :
                      \A v \in NoDigitMatches(name) : v[1] <= u[1]
         IN [matched |-> TRUE,
             group1 |-> SubSeq(name, t[1] + 1, t[2] - 1),
             group2 |-> <<>>]
    ELSE [matched |-> FALSE, group1 |-> <<>>, group2 |-> <<>>]

\* re.search(name_pat, item): the leading .+ is greedy, so of the possible
\* matches the one whose token starts furthest right is taken.
Match(name) ==
    IF PatMatches(name) = {} THEN NoMatch
    ELSE LET t == CHOOSE u \in PatMatches(name) :
                      \A v \in PatMatches(name) : v[1] <= u[1]
         IN [matched |-> TRUE,
             group1 |-> SubSeq(name, t[1] + 1, t[2] - 1),
             group2 |-> SubSeq(name, t[2] + 1, t[3] - 1)]

\* ------------------------------------------------------------- file names
N_nor_2k == <<"a", "_", "n", "o", "r", "_", "2", "k", ".", "p">>
N_NOR_2k == <<"b", "_", "N", "O", "R", "_", "2", "k", ".", "p">>
N_nor == <<"a", "_", "n", "o", "r", ".", "p">>
N_bump_2k == <<"a", "_", "b", "u", "m", "p", "_", "2", "k", ".", "p">>
N_diff_2k == <<"a", "_", "d", "i", "f", "f", "_", "2", "k", ".", "p">>
N_disp_2k == <<"a", "_", "d", "i", "s", "p", "_", "2", "k", ".", "p">>
N_rough_4k == <<"a", "_", "r", "o", "u", "g", "h", "_", "4", "k", ".", "p">>
N_ao_16k == <<"a", "_", "a", "o", "_", "1", "6", "k", ".", "p">>

\* The file names an archive may hold.
FileNames ==
    {N_nor_2k, N_NOR_2k, N_nor, N_bump_2k, N_diff_2k, N_disp_2k, N_rough_4k,
     N_ao_16k}

\* re.search(name_pat, item) for the names an archive may hold
name_matches == [n \in FileNames |-> Match(n)]

\* os.listdir(temp_dir): distinct names, in any order
Listings ==
    {l \in UNION {[1..n -> FileNames] : n \in 0..MaxFiles} :
        \A i, j \in 1..Len(l) : i # j => l[i] # l[j]}

\* ------------------------------------------------------- operator options
Toggles == {"use_diffuse", "use_specular", "use_normals", "use_bump", "use_roughness"}
DisplacementModes == {"no", "material", "texture"}

Configs ==
    {c \in [Toggles -> BOOLEAN] :
        Cardinality({t \in Toggles : ~c[t]}) <= MaxDisabled}

\* load_component, as built from the operator's properties
LoadComponent(c, mode) ==
    [map \in MAP |->
        CASE map = "DIFFUSE" -> c["use_diffuse"]
          [] map = "SPECULAR" -> c["use_specular"]
          [] map = "NORMAL" -> c["use_normals"]
          [] map = "BUMP" -> c["use_bump"]
          [] map = "ROUGHNESS" -> c["use_roughness"]
          [] map = "DISPLACEMENT" -> mode # "no"]

\* --------------------------------------------------- node-group library
\* A node group is known by its interface: the types of its input and of
\* its output sockets.  Key 0 is the name "texture_material_normal_mapping",
\* key k > 0 the name with the suffix the host appends for uniqueness.
ReservedName == 0

\* The group add_normal_mapping_nodes builds: the links from
\* group_input.outputs[0] and into group_output.inputs[0] give it one
\* vector input and one vector output.
NormalMappingGroup ==
    [inputs |-> <<"VECTOR">>, outputs |-> <<"VECTOR">>, made_by |-> "addon"]

\* Groups that may sit under the reserved name before the first invocation.
UserGroups ==
    {[inputs |-> <<"VECTOR">>, outputs |-> <<"VECTOR">>, made_by |-> "user"],
     [inputs |-> <<"VECTOR", "VECTOR">>, outputs |-> <<"VECTOR">>, made_by |-> "user"],
     [inputs |-> <<"VECTOR">>, outputs |-> <<"VALUE">>, made_by |-> "user"]}

EmptyLibrary == [k \in {} |-> NormalMappingGroup]

InitialLibraries ==
    {EmptyLibrary} \cup {[k \in {ReservedName} |-> g] : g \in UserGroups}

\* the structural test without its look at the socket types
LooksOK_ArityOnly(group) ==
    /\ Len(group.inputs) = 1
    /\ Len(group.outputs) = 1

\* the structural test of add_normal_mapping_nodes on an existing group
LooksOK(group) ==
    /\ Len(group.inputs) = 1
    /\ Len(group.outputs) = 1
    /\ group.inputs[1] = "VECTOR"
    /\ group.outputs[1] = "VECTOR"

\* the lookup of add_normal_mapping_nodes: the group to reuse, or NoGroup
FindGroup(lib, name) ==
    IF name \in DOMAIN lib /\ LooksOK(lib[name]) THEN name ELSE NoGroup

\* bpy.data.node_groups.new(name, ...): the name the new group ends up with
UniqueName(lib, name) ==
    IF name \notin DOMAIN lib THEN name
    ELSE CHOOSE k \in 1..(Cardinality(DOMAIN lib) + 1) :
             /\ k \notin DOMAIN lib
             /\ \A h \in 1..(k - 1) : h \in DOMAIN lib

VARIABLES
    pc,                 \* position of the invocation in execute
    temp_dir,           \* None, or the scratch directory mkdtemp returned
    rmtree_called,      \* shutil.rmtree(temp_dir) has been called
    listing,            \* os.listdir(temp_dir)
    idx,                \* position of the for loop in listing
    load_component,     \* load_component
    use_displacement,   \* self.use_displacement
    components,         \* components: MAP member -> file
    img_size,           \* img_size
    material,           \* bpy.data.materials.new has been called
    nodes,              \* material_tree.nodes
    links,              \* material_tree.links
    displacement_method,\* material.cycles.displacement_method
    images,             \* images loaded into bpy.data.images
    textures,           \* textures added to bpy.data.textures
    node_groups,        \* bpy.data.node_groups
    normal_mapping_group_name, \* normal_mapping_group_name
    map_idx,            \* position of the wiring loop in its tuple of maps
    created_group,      \* the group this invocation created, or NoGroup
    exc,                \* the exception in flight, or None
    status,             \* status
    prev                \* what the previous invocation did with node groups

vars ==
    <<pc, temp_dir, rmtree_called, listing, idx, load_component,
      use_displacement, components, img_size, material, nodes, links,
      displacement_method, images, textures, node_groups,
      normal_mapping_group_name, map_idx, created_group, exc, status, prev>>

NoComponents == [m \in {} |-> <<>>]
NoLoad == [map \in MAP |-> FALSE]
NoRun == [ran |-> FALSE, wired |-> FALSE, created |-> NoGroup, used |-> NoGroup]

Init ==
    /\ pc = "idle"
    /\ temp_dir = None
    /\ rmtree_called = FALSE
    /\ listing = <<>>
    /\ idx = 1
    /\ load_component = NoLoad
    /\ use_displacement = "no"
    /\ components = NoComponents
    /\ img_size = NoSize
    /\ material = FALSE
    /\ nodes = {}
    /\ links = {}
    /\ displacement_method = "BUMP"
    /\ images = {}
    /\ textures = {}
    /\ node_groups \in InitialLibraries
    /\ normal_mapping_group_name = ReservedName
    /\ map_idx = 1
    /\ created_group = NoGroup
    /\ exc = None
    /\ status = None
    /\ prev = NoRun


\* the scan loop without its assert
AssertSameSize_Skipped(size, this_size) == TRUE

\* ------------------------------------------------------- classification
\* the assert of the scan loop: the first size seen is the expected one
AssertSameSize(size, this_size) == size = NoSize \/ this_size = size

\* a binding that keeps the file already bound to the map
BindComponent_KeepFirst(comps, map, item) ==
    IF map \in DOMAIN comps
    THEN comps
    ELSE [m \in (DOMAIN comps) \cup {map} |-> IF m = map THEN item ELSE comps[m]]

\* components[map] = os.path.join(temp_dir, item)
BindComponent(comps, map, item) ==
    [m \in (DOMAIN comps) \cup {map} |-> IF m = map THEN item ELSE comps[m]]

\* one iteration of "for item in os.listdir(temp_dir)"
ScanStep(comps, size, item, load) ==
    LET match == name_matches[item]
        this_namestr == Lower(match.group1)
        this_size == ParseInt(match.group2) * 1024
    IN  IF ~match.matched
        THEN [failed |-> FALSE, components |-> comps, img_size |-> size]
        ELSE IF ~AssertSameSize(size, this_size)
        THEN [failed |-> TRUE, components |-> comps, img_size |-> size]
        ELSE [failed |-> FALSE,
              img_size |-> IF size = NoSize THEN this_size ELSE size,
              components |->
                  IF this_namestr \in by_namestr_keys
                     /\ load[by_namestr(this_namestr)]
                  THEN BindComponent(comps, by_namestr(this_namestr), item)
                  ELSE comps]

\* components left as the scan loop built it
PreferNormalOverBump_Skipped(comps) == comps

\* "if MAP.NORMAL in components : components.pop(MAP.BUMP, None)"
PreferNormalOverBump(comps) ==
    IF "NORMAL" \in DOMAIN comps
    THEN [m \in (DOMAIN comps) \ {"BUMP"} |-> comps[m]]
    ELSE comps

\* ------------------------------------------------------------ node tree
Node(name, type, image, tree) ==
    [name |-> name, type |-> type, image |-> image, node_tree |-> tree]

\* material_tree.links.new(output, input)
Link(from_node, from_socket, to_node, to_socket) ==
    <<from_node, from_socket, to_node, to_socket>>

\* load_image(map)
Image(comps, map) ==
    [name |-> map,
     filepath |-> comps[map],
     colorspace |-> IF is_colour(map) THEN "sRGB" ELSE "Non-Color",
     packed |-> TRUE]

\* new_image_texture_node(map): the node is named after its map
TexImageNode(map) == Node(map, "ShaderNodeTexImage", map, NoGroup)
TexImageLink(map) == Link("fanout", "Output", map, "Vector")

\* the nodes and links execute creates before it looks at components
BackboneNodes ==
    {Node("tex_coords", "ShaderNodeTexCoord", None, NoGroup),
     Node("tex_mapping", "ShaderNodeMapping", None, NoGroup),
     Node("fanout", "NodeReroute", None, NoGroup),
     Node("main_shader", "ShaderNodeBsdfPrincipled", None, NoGroup)}
BackboneLinks ==
    {Link("tex_coords", "UV", "tex_mapping", "Vector"),
     Link("tex_mapping", "Vector", "fanout", "Input")}

\* the tuple the wiring loop runs over
WireOrder == <<"DIFFUSE", "SPECULAR", "ROUGHNESS", "NORMAL", "BUMP">>

\* the positions of the wiring loop, from k on, whose map is in components
WirePending(comps, k) ==
    {i \in k..Len(WireOrder) : WireOrder[i] \in DOMAIN comps}

\* add_bump_convert_nodes
BumpConvertNodes == {Node("bump_convert", "ShaderNodeBump", None, NoGroup)}
BumpConvertLinks(map) == {Link(map, "Color", "bump_convert", "Height")}

\* add_normal_mapping_nodes: the group the new group node refers to
GroupToUse(lib, name) ==
    IF FindGroup(lib, name) # NoGroup
    THEN FindGroup(lib, name)
    ELSE UniqueName(lib, name)

\* add_normal_mapping_nodes: the library once the function has run
LibraryAfter(lib, name) ==
    IF FindGroup(lib, name) # NoGroup
    THEN lib
    ELSE [k \in (DOMAIN lib) \cup {UniqueName(lib, name)} |->
              IF k \in DOMAIN lib THEN lib[k] ELSE NormalMappingGroup]

NormalStrengthNode(tree) ==
    Node("normal_strength", "ShaderNodeGroup", None, tree)
NormalStrengthLinks(map) ==
    {Link(map, "Color", "normal_strength", "In")}

\* the output_terminal that is linked to the shader input of map
OutputTerminal(map) ==
    CASE map = "BUMP" -> <<"bump_convert", "Normal">>
      [] map = "NORMAL" -> <<"normal_strength", "Out">>
      [] OTHER -> <<map, "Color">>

ShaderLink(map) ==
    Link(OutputTerminal(map)[1], OutputTerminal(map)[2],
         "main_shader", principled_bsdf_input_name(map))

\* the displacement test without its look at self.use_displacement
DisplacementWanted_AnyMode(mode, use, comps) == "DISPLACEMENT" \in DOMAIN comps

\* "self.use_displacement == ... and MAP.DISPLACEMENT in components"
DisplacementWanted(mode, use, comps) ==
    use = mode /\ "DISPLACEMENT" \in DOMAIN comps

\* a finally clause that removes the directory only after a finished run
MustRemove_WhenFinished(dir) == dir # None /\ status = "FINISHED"

\* the guard of the finally clause
MustRemove(dir) == dir # None

\* ---------------------------------------------------------------- actions
\* execute is called; tempfile.mkdtemp creates the scratch directory
Start ==
    /\ pc = "idle"
    /\ Cardinality(DOMAIN node_groups) <= MaxGroups
    /\ \E ok \in BOOLEAN :
          IF ok
          THEN /\ temp_dir' = "texture-import-"
               /\ pc' = "extract"
               /\ exc' = None
          ELSE /\ exc' = "OSError"
               /\ pc' = "finally"
               /\ UNCHANGED temp_dir
    /\ UNCHANGED <<rmtree_called, listing, idx, load_component,
                   use_displacement, components, img_size, material, nodes,
                   links, displacement_method, images, textures, node_groups,
                   normal_mapping_group_name, map_idx, created_group, status,
                   prev>>

\* subprocess.check_call(unar ...): the archive is unpacked, or the call raises
Extract ==
    /\ pc = "extract"
    /\ \E ok \in BOOLEAN :
          IF ok
          THEN /\ \E l \in Listings : listing' = l
               /\ pc' = "config"
               /\ exc' = None
          ELSE /\ exc' = "CalledProcessError"
               /\ pc' = "finally"
               /\ UNCHANGED listing
    /\ UNCHANGED <<temp_dir, rmtree_called, idx, load_component,
                   use_displacement, components, img_size, material, nodes,
                   links, displacement_method, images, textures, node_groups,
                   normal_mapping_group_name, map_idx, created_group, status,
                   prev>>

\* by_namestr, load_component, components, name_pat, img_size are set up
ReadConfig ==
    /\ pc = "config"
    /\ \E c \in Configs, mode \in DisplacementModes :
          /\ load_component' = LoadComponent(c, mode)
          /\ use_displacement' = mode
    /\ components' = NoComponents
    /\ img_size' = NoSize
    /\ idx' = 1
    /\ pc' = "scan"
    /\ UNCHANGED <<temp_dir, rmtree_called, listing, material,
                   nodes, links, displacement_method, images, textures,
                   node_groups, normal_mapping_group_name, map_idx,
                   created_group, exc, status, prev>>

\* one iteration of the scan loop over os.listdir(temp_dir)
ScanItem ==
    /\ pc = "scan"
    /\ idx <= Len(listing)
    /\ LET r == ScanStep(components, img_size, listing[idx], load_component)
       IN  IF r.failed
           THEN /\ exc' = "AssertionError"
                /\ pc' = "finally"
                /\ UNCHANGED <<components, img_size, idx>>
           ELSE /\ components' = r.components
                /\ img_size' = r.img_size
                /\ idx' = idx + 1
                /\ UNCHANGED <<exc, pc>>
    /\ UNCHANGED <<temp_dir, rmtree_called, listing,
                   load_component, use_displacement, material, nodes, links,
                   displacement_method, images, textures, node_groups,
                   normal_mapping_group_name, map_idx, created_group, status,
                   prev>>

\* the scan loop is over: prefer normal over bump map
PreferNormal ==
    /\ pc = "scan"
    /\ idx > Len(listing)
    /\ components' = PreferNormalOverBump(components)
    /\ pc' = "material"
    /\ UNCHANGED <<temp_dir, rmtree_called, listing, idx,
                   load_component, use_displacement, img_size, material,
                   nodes, links, displacement_method, images, textures,
                   node_groups, normal_mapping_group_name, map_idx,
                   created_group, exc, status, prev>>

\* the material is created, with the nodes every material gets
CreateMaterial ==
    /\ pc = "material"
    /\ material' = TRUE
    /\ nodes' = BackboneNodes
    /\ links' = BackboneLinks
    /\ normal_mapping_group_name' = ReservedName
    /\ map_idx' = 1
    /\ pc' = "wire"
    /\ UNCHANGED <<temp_dir, rmtree_called, listing, idx,
                   load_component, use_displacement, components, img_size,
                   displacement_method, images, textures, node_groups,
                   created_group, exc, status, prev>>

\* the wiring loop reaches the next map that is in components:
\* bpy.data.images.load may raise; otherwise the texture node, the nodes
\* special to the map and the link to the shader are added
WireMap ==
    /\ pc = "wire"
    /\ WirePending(components, map_idx) # {}
    /\ LET k == CHOOSE i \in WirePending(components, map_idx) :
                    \A j \in WirePending(components, map_idx) : i <= j
           map == WireOrder[k]
           name == normal_mapping_group_name
       IN  \E loaded \in BOOLEAN :
             IF ~loaded
             THEN /\ exc' = "RuntimeError"
                  /\ pc' = "finally"
                  /\ UNCHANGED <<images, nodes, links, node_groups,
                                 normal_mapping_group_name, created_group,
                                 map_idx>>
             ELSE /\ images' = images \cup {Image(components, map)}
                  /\ map_idx' = k + 1
                  /\ UNCHANGED <<exc, pc>>
                  /\ IF map = "NORMAL"
                     THEN /\ node_groups' = LibraryAfter(node_groups, name)
                          /\ created_group' =
                                IF FindGroup(node_groups, name) = NoGroup
                                THEN UniqueName(node_groups, name)
                                ELSE created_group
                          /\ normal_mapping_group_name' =
                                IF FindGroup(node_groups, name) = NoGroup
                                THEN UniqueName(node_groups, name)
                                ELSE name
                          /\ nodes' = nodes \cup
                                {TexImageNode(map),
                                 NormalStrengthNode(GroupToUse(node_groups, name))}
                          /\ links' = links \cup {TexImageLink(map), ShaderLink(map)}
                                \cup NormalStrengthLinks(map)
                     ELSE /\ UNCHANGED <<node_groups, created_group,
                                         normal_mapping_group_name>>
                          /\ nodes' = nodes \cup {TexImageNode(map)} \cup
                                (IF map = "BUMP" THEN BumpConvertNodes ELSE {})
                          /\ links' = links \cup {TexImageLink(map), ShaderLink(map)}
                                \cup (IF map = "BUMP" THEN BumpConvertLinks(map) ELSE {})
    /\ UNCHANGED <<temp_dir, rmtree_called, listing, idx,
                   load_component, use_displacement, components, img_size,
                   material, displacement_method, textures, status, prev>>

\* the wiring loop is over: the output node, and the displacement map when
\* it is used in the material
FinishMaterial ==
    /\ pc = "wire"
    /\ WirePending(components, map_idx) = {}
    /\ IF DisplacementWanted("material", use_displacement, components)
       THEN \E loaded \in BOOLEAN :
              IF ~loaded
              THEN /\ exc' = "RuntimeError"
                   /\ pc' = "finally"
                   /\ nodes' = nodes \cup
                        {Node("material_output", "ShaderNodeOutputMaterial", None, NoGroup)}
                   /\ links' = links \cup
                        {Link("main_shader", "BSDF", "material_output", "Surface")}
                   /\ UNCHANGED <<images, displacement_method>>
              ELSE /\ images' = images \cup {Image(components, "DISPLACEMENT")}
                   /\ nodes' = nodes \cup
                        {Node("material_output", "ShaderNodeOutputMaterial", None, NoGroup),
                         TexImageNode("DISPLACEMENT")}
                   /\ links' = links \cup
                        {Link("main_shader", "BSDF", "material_output", "Surface"),
                         TexImageLink("DISPLACEMENT"),
                         Link("DISPLACEMENT", "Color", "material_output", "Displacement")}
                   /\ displacement_method' = "BOTH"
                   /\ pc' = "texture"
                   /\ UNCHANGED exc
       ELSE /\ nodes' = nodes \cup
                 {Node("material_output", "ShaderNodeOutputMaterial", None, NoGroup)}
            /\ links' = links \cup
                 {Link("main_shader", "BSDF", "material_output", "Surface")}
            /\ pc' = "texture"
            /\ UNCHANGED <<images, displacement_method, exc>>
    /\ UNCHANGED <<temp_dir, rmtree_called, listing, idx,
                   load_component, use_displacement, components, img_size,
                   material, textures, node_groups, normal_mapping_group_name,
                   map_idx, created_group, status, prev>>

\* the displacement map as a texture of its own, then status = {"FINISHED"}
StandaloneTexture ==
    /\ pc = "texture"
    /\ IF DisplacementWanted("texture", use_displacement, components)
       THEN \E loaded \in BOOLEAN :
              IF ~loaded
              THEN /\ exc' = "RuntimeError"
                   /\ UNCHANGED <<images, textures, status>>
              ELSE /\ images' = images \cup {Image(components, "DISPLACEMENT")}
                   /\ textures' = textures \cup
                        {[name |-> "DISPLACEMENT", type |-> "IMAGE",
                          image |-> "DISPLACEMENT"]}
                   /\ status' = "FINISHED"
                   /\ UNCHANGED exc
       ELSE /\ status' = "FINISHED"
            /\ UNCHANGED <<images, textures, exc>>
    /\ pc' = "finally"
    /\ UNCHANGED <<temp_dir, rmtree_called, listing, idx,
                   load_component, use_displacement, components, img_size,
                   material, nodes, links, displacement_method, node_groups,
                   normal_mapping_group_name, map_idx, created_group, prev>>

\* the finally clause: shutil.rmtree(temp_dir), whose OSError is swallowed
Finally ==
    /\ pc = "finally"
    /\ IF MustRemove(temp_dir)
       THEN rmtree_called' = TRUE
       ELSE UNCHANGED rmtree_called
    /\ pc' = "done"
    /\ UNCHANGED <<temp_dir, listing, idx, load_component, use_displacement,
                   components, img_size, material, nodes, links,
                   displacement_method, images, textures, node_groups,
                   normal_mapping_group_name, map_idx, created_group, exc,
                   status, prev>>

\* what this invocation did with node groups
ThisRun ==
    [ran |-> TRUE,
     wired |-> \E n \in nodes : n.name = "normal_strength",
     created |-> created_group,
     used |-> IF \E n \in nodes : n.name = "normal_strength"
              THEN (CHOOSE n \in nodes : n.name = "normal_strength").node_tree
              ELSE NoGroup]

\* execute returns status, or the exception leaves it; the library stays
Return ==
    /\ pc = "done"
    /\ pc' = "idle"
    /\ prev' = ThisRun
    /\ temp_dir' = None
    /\ rmtree_called' = FALSE
    /\ listing' = <<>>
    /\ idx' = 1
    /\ load_component' = NoLoad
    /\ use_displacement' = "no"
    /\ components' = NoComponents
    /\ img_size' = NoSize
    /\ material' = FALSE
    /\ nodes' = {}
    /\ links' = {}
    /\ displacement_method' = "BUMP"
    /\ images' = {}
    /\ textures' = {}
    /\ normal_mapping_group_name' = ReservedName
    /\ map_idx' = 1
    /\ created_group' = NoGroup
    /\ exc' = None
    /\ status' = None
    /\ UNCHANGED node_groups

Next ==
    \/ Start
    \/ Extract
    \/ ReadConfig
    \/ ScanItem
    \/ PreferNormal
    \/ CreateMaterial
    \/ WireMap
    \/ FinishMaterial
    \/ StandaloneTexture
    \/ Finally
    \/ Return

Spec == Init /\ [][Next]_vars


\* ----------------------------------------------------------- properties
\* the whole scan loop, then the preference of normal over bump
RECURSIVE ScanAll(_, _, _, _)
ScanAll(l, comps, size, load) ==
    IF l = <<>>
    THEN [failed |-> FALSE, components |-> PreferNormalOverBump(comps)]
    ELSE LET r == ScanStep(comps, size, Head(l), load)
         IN  IF r.failed
             THEN [failed |-> TRUE, components |-> NoComponents]
             ELSE ScanAll(Tail(l), r.components, r.img_size, load)

\* the MAP member each file name is taken for, or None
file_kinds ==
    [n \in FileNames |->
        IF name_matches[n].matched
           /\ Lower(name_matches[n].group1) \in by_namestr_keys
        THEN by_namestr(Lower(name_matches[n].group1))
        ELSE None]

FileKind(item) == file_kinds[item]

\* the size each file name states, or NoSize
file_sizes ==
    [n \in FileNames |->
        IF name_matches[n].matched
        THEN ParseInt(name_matches[n].group2) * 1024
        ELSE NoSize]

FileSize(item) == file_sizes[item]

\* the positions of listing, up to n, whose file is taken for map
FilesOfKind(map, n) == {i \in 1..n : FileKind(listing[i]) = map}

\* how much of listing the scan loop has gone through
Scanned ==
    IF pc \in {"idle", "extract", "config"} THEN 0
    ELSE IF pc = "scan" \/ exc = "AssertionError" THEN idx - 1
    ELSE Len(listing)

Max(S) == CHOOSE i \in S : \A j \in S : j <= i
Min(S) == CHOOSE i \in S : \A j \in S : i <= j

\* the name has a "_<digits>k." piece somewhere
HasDigitGroup(name) ==
    \E j, m \in 1..Len(name) :
        /\ j + 1 < m /\ m < Len(name)
        /\ name[j] = "_"
        /\ \A k \in (j + 1)..(m - 1) : name[k] \in Digits
        /\ name[m] = "k"
        /\ name[m + 1] = "."

\* the name is <prefix>_<token>.<ext> with a token that names a map and no
\* digit group; the position of the "." after the token, else 0
TokenDot(name) ==
    IF \E i, d \in 2..Len(name) :
          /\ i + 1 < d /\ d < Len(name)
          /\ name[i] = "_" /\ name[d] = "."
          /\ \A k \in (i + 1)..(d - 1) : name[k] \in Letters
          /\ \A k \in (d + 1)..Len(name) : name[k] # "."
          /\ Lower(SubSeq(name, i + 1, d - 1)) \in by_namestr_keys
    THEN CHOOSE d \in 2..Len(name) : name[d] = "." /\ \A k \in (d + 1)..Len(name) : name[k] # "."
    ELSE 0

\* the same name with the digit group "_2k" put in
DigitForm(name) ==
    SubSeq(name, 1, TokenDot(name) - 1) \o <<"_", "2", "k">>
        \o SubSeq(name, TokenDot(name), Len(name))

\* the token of a name TokenDot accepts, as a MAP member
TokenKind(name) ==
    LET i == Max({k \in 1..TokenDot(name) : name[k] = "_"})
    IN  by_namestr(Lower(SubSeq(name, i + 1, TokenDot(name) - 1)))

HasNormalNode == \E n \in nodes : n.name = "normal_strength"

\* C1 (as claimed): two successive invocations that each wire a normal map
\* never create two node groups between them: at most one of them creates a
\* group, and the second invocation's group node refers to the same group as
\* the first one's.
C1_OneGroupForTwoRuns ==
    (pc = "done" /\ prev.ran /\ prev.wired /\ HasNormalNode)
        => /\ ~(prev.created # NoGroup /\ created_group # NoGroup)
           /\ ThisRun.used = prev.used

\* a file taken for NORMAL and a file taken for BUMP are both in the
\* directory, and both maps are to be loaded
NormalAndBump ==
    /\ load_component["NORMAL"] /\ load_component["BUMP"]
    /\ FilesOfKind("NORMAL", Len(listing)) # {}
    /\ FilesOfKind("BUMP", Len(listing)) # {}

\* C2: when a Normal and a Bump file are both present and enabled, no image,
\* texture node or conversion node is ever made for the bump map, and the
\* finished material has exactly one link into the shader's Normal input,
\* which comes from the normal-mapping group node fed by the normal texture.
C2_NormalBeatsBump ==
    NormalAndBump =>
        /\ \A n \in nodes : n.name \notin {"BUMP", "bump_convert"}
        /\ \A i \in images : i.name # "BUMP"
        /\ status = "FINISHED" =>
              /\ {l \in links : l[3] = "main_shader" /\ l[4] = "Normal"}
                    = {Link("normal_strength", "Out", "main_shader", "Normal")}
              /\ Link("NORMAL", "Color", "normal_strength", "In") \in links
              /\ \E n \in nodes : n.name = "normal_strength" /\ n.type = "ShaderNodeGroup"
              /\ \E n \in nodes : n.name = "NORMAL" /\ n.image = "NORMAL"

C2_Witness == pc = "done" /\ status = "FINISHED" /\ NormalAndBump

\* two files of the directory state different sizes
SizesDiffer ==
    \E i, j \in 1..Len(listing) :
        /\ FileSize(listing[i]) # NoSize
        /\ FileSize(listing[j]) # NoSize
        /\ FileSize(listing[i]) # FileSize(listing[j])

\* C3: when two files of the directory state different sizes, the invocation
\* ends with the assertion error, whatever the order of the files, and has
\* created no material, node, link, image, texture or node group.
C3_MixedSizesFail ==
    SizesDiffer =>
        /\ ~material /\ nodes = {} /\ links = {} /\ images = {}
        /\ textures = {} /\ created_group = NoGroup
        /\ status = None
        /\ pc = "done" => exc = "AssertionError"

C3_Witness ==
    /\ pc = "done" /\ exc = "AssertionError" /\ SizesDiffer
    /\ listing = <<N_rough_4k, N_diff_2k>>

\* C4 (as claimed): a file name with a token that names a map and no digit
\* group is taken for the same map as its digit-bearing form, states no
\* size, and, the map being loaded, is bound in components.
C4_NoDigitFormClassifies ==
    \A i \in 1..Scanned :
        (TokenDot(listing[i]) # 0 /\ exc = None) =>
            /\ FileKind(listing[i]) = TokenKind(listing[i])
            /\ FileSize(listing[i]) = NoSize
            /\ (pc = "scan" /\ idx = i + 1 /\ load_component[TokenKind(listing[i])])
                  => TokenKind(listing[i]) \in DOMAIN components

\* C4 (amended): a file name with no "_<digits>k." piece is skipped by the
\* scan loop: components and img_size stay as they are and nothing is
\* raised; a name that has the piece and a token naming a loaded map is bound
\* to that map.
C4_NoDigitFormIgnored ==
    [][(pc = "scan" /\ idx <= Len(listing)) =>
          LET item == listing[idx]
          IN  /\ ~HasDigitGroup(item) =>
                    /\ components' = components
                    /\ img_size' = img_size
                    /\ exc' = None /\ pc' = "scan" /\ idx' = idx + 1
              /\ (TokenDot(item) # 0 /\ load_component[TokenKind(item)]) =>
                    ScanStep(NoComponents, NoSize, DigitForm(item), load_component).components
                          = [m \in {TokenKind(item)} |-> DigitForm(item)]]_vars

C4_Witness ==
    /\ pc = "scan" /\ idx = 2 /\ listing[1] = N_nor
    /\ load_component["NORMAL"] /\ components = NoComponents
    /\ img_size = NoSize

\* C5 (as claimed): each map in components is bound to the first file, in
\* the order of the listing, that is taken for that map.
C5_FirstFileWins ==
    \A m \in DOMAIN components :
        /\ FilesOfKind(m, Scanned) # {}
        /\ components[m] = listing[Min(FilesOfKind(m, Scanned))]

\* C5 (amended): each map in components is bound to the last file, in the
\* order of the listing, that is taken for that map; components holds one
\* file for a map.
C5_LastFileWins ==
    \A m \in DOMAIN components :
        /\ FilesOfKind(m, Scanned) # {}
        /\ components[m] = listing[Max(FilesOfKind(m, Scanned))]

C5_Witness ==
    /\ pc = "material"
    /\ \E m \in DOMAIN components : Cardinality(FilesOfKind(m, Len(listing))) = 2

\* C6 (as claimed): an invocation whose components is empty creates no
\* material and does not finish.
C6_EmptyFails ==
    components = NoComponents =>
        /\ ~material
        /\ status # "FINISHED"

\* C7: an invocation that created its scratch directory has called rmtree on
\* it when it ends, however it ends.
C7_ScratchRemoved ==
    (pc = "done" /\ temp_dir # None) => rmtree_called

C7_Witness ==
    pc = "done" /\ temp_dir # None /\ exc = "RuntimeError" /\ rmtree_called

\* the listing without its i-th file
Without(l, i) == SubSeq(l, 1, i - 1) \o SubSeq(l, i + 1, Len(l))

\* C8 (as claimed): once the directory has been classified, the outcome
\* (failure or not, and components) is the one the directory gives without
\* any one of its files that is taken for no map.
C8_UnrecognizedIgnored ==
    (pc = "material" \/ exc = "AssertionError") =>
        \A i \in 1..Len(listing) :
            FileKind(listing[i]) = None =>
                [failed |-> exc = "AssertionError", components |-> components]
                    = ScanAll(Without(listing, i), NoComponents, NoSize, load_component)

\* a file of the directory is taken for DISPLACEMENT
HasDisplacementFile == FilesOfKind("DISPLACEMENT", Len(listing)) # {}

DisplacementLinks ==
    {l \in links : l[1] = "DISPLACEMENT" \/ l[3] = "DISPLACEMENT"
                   \/ (l[3] = "material_output" /\ l[4] = "Displacement")}

\* C9: a finished invocation over a directory with a displacement file: in
\* mode "material" one displacement texture node, linked to the Displacement
\* input of the output node, method BOTH, no texture; in mode "texture" a
\* texture and no displacement node or link; in mode "no" neither; and never
\* a link from the displacement node to the shader.
C9_DisplacementByMode ==
    (status = "FINISHED" /\ HasDisplacementFile) =>
        /\ use_displacement = "material" =>
              /\ Cardinality({n \in nodes : n.image = "DISPLACEMENT"}) = 1
              /\ TexImageNode("DISPLACEMENT") \in nodes
              /\ Link("DISPLACEMENT", "Color", "material_output", "Displacement") \in links
              /\ displacement_method = "BOTH"
              /\ textures = {}
        /\ use_displacement = "texture" =>
              /\ \E t \in textures : t.image = "DISPLACEMENT"
              /\ Cardinality(textures) = 1
              /\ {n \in nodes : n.image = "DISPLACEMENT"} = {}
              /\ DisplacementLinks = {}
              /\ displacement_method = "BUMP"
        /\ use_displacement = "no" =>
              /\ textures = {}
              /\ {n \in nodes : n.image = "DISPLACEMENT"} = {}
              /\ DisplacementLinks = {}
              /\ displacement_method = "BUMP"
              /\ \A i \in images : i.name # "DISPLACEMENT"
        /\ \A l \in links : ~(l[1] = "DISPLACEMENT" /\ l[3] = "main_shader")

C9_Witness ==
    /\ pc = "done" /\ status = "FINISHED" /\ HasDisplacementFile
    /\ use_displacement = "texture" /\ textures # {}

\* a group without exactly one VECTOR input and one VECTOR output
Mismatched(group) ==
    ~(group.inputs = <<"VECTOR">> /\ group.outputs = <<"VECTOR">>)

\* C10: while a mismatched group sits under the reserved name, every step
\* leaves it there unchanged, and a step that adds the normal-mapping group
\* node creates a fresh group and makes the node refer to it.
C10_MismatchedGroupKept ==
    [][(ReservedName \in DOMAIN node_groups
            /\ Mismatched(node_groups[ReservedName])) =>
          /\ ReservedName \in DOMAIN node_groups'
          /\ node_groups'[ReservedName] = node_groups[ReservedName]
          /\ \A n \in nodes' \ nodes :
                n.name = "normal_strength" =>
                    /\ n.node_tree \notin DOMAIN node_groups
                    /\ n.node_tree \in DOMAIN node_groups'
                    /\ node_groups'[n.node_tree] = NormalMappingGroup
                    /\ created_group' = n.node_tree]_vars

C10_Witness ==
    /\ ReservedName \in DOMAIN node_groups
    /\ Mismatched(node_groups[ReservedName])
    /\ \E n \in nodes : n.name = "normal_strength" /\ n.node_tree = 1
    /\ created_group = 1

====
